---------------------------- MODULE Spec2Model ----------------------------
(***************************************************************************)
(* Model of the entity/component/system runtime of example_ecs:            *)
(*   src/system.h          ISystem, SystemBase (component stores)          *)
(*   src/entity_manager.h  EntityManager, Systems, Entities, Entity        *)
(*   src/main.cpp          the Health / PoisonDamage sample program        *)
(*                                                                         *)
(* Conventions.  Code indices are 0-based, TLA+ sequences 1-based: the     *)
(* element the code calls v[i] is v[i + 1] here (operator At).  A store    *)
(* pointer is modelled by the component id of its kind: the table          *)
(* systems[] holds at most one store per id and systems_prioritised holds  *)
(* exactly the pointers of the table, so pointer equality is id equality.  *)
(* An Entity* handed to a store stands for the entity's id.                *)
(***************************************************************************)
EXTENDS Integers, Sequences, FiniteSets, TLC

(***************************************************************************)
(* Bounds of the model.                                                    *)
(***************************************************************************)
MAX_COMPONENTS == 3      \* number of component kinds (size of systems[])
MaxEntities == 3         \* cap on the entity id counter
MaxVal == 2              \* constructor arguments are drawn from 1..MaxVal
MaxHookOps == 2          \* calls one update hook makes before returning
MaxPassCalls == 2        \* calls all the hooks of one pass make together
SizeBits == 16           \* width of the modelled size_t cursor

Kinds == 0 .. (MAX_COMPONENTS - 1)
Vals == 1 .. MaxVal
EntityIds == 1 .. MaxEntities
SizeMod == 2 ^ SizeBits

(***************************************************************************)
(* Priorities.  SystemBase<C, Priority = UINT8_MAX>: a per-kind constant.  *)
(***************************************************************************)
UINT8_MAX == 255

VARIABLES
    priority,             \* [Kinds -> Nat]: GetPriority() of each kind's store
    entity_ids,           \* Entities::entity_ids
    entities,             \* Entities::entities: id -> Entity::components (set of kinds)
    systems,              \* Systems::systems[]: kind -> store (alloc = FALSE: nullptr)
    systems_prioritised,  \* Systems::systems_prioritised: sequence of kinds
    copy,                 \* the store the application got from GetSystemCopy
    pc,                   \* where the program is: "idle", "dispatch", "pass", "hook"
    sys_i,                \* loop index i of Systems::Manage
    cur,                  \* kind of the store whose Manage() is running
    hook_eid,             \* entity id handed to the running update hook
    hook_ops,             \* number of calls the running hook has made
    last,                 \* the last operation and what it returned
    fault,                \* "none", or the undefined behaviour that was hit
    hist,                 \* history of the current tick (for the properties)
    scope,                \* the bounds of this run (fixed in Init), see InitWith
    contract_broken,      \* TRUE once ReplaceSystem got a store with other entity ids
    main,                 \* main(): its position, loop counter and what it printed
    ghost                 \* history: stores in registration order, ids handed
                          \* out, ids destroyed, kinds that lost a component to
                          \* the hook of another kind since their last pass

vars == << priority, entity_ids, entities, systems, systems_prioritised, copy,
           pc, sys_i, cur, hook_eid, hook_ops, last, fault, hist,
           scope, contract_broken, main, ghost >>

(***************************************************************************)
(* Sequence helpers, 0-based like the code's vectors.                      *)
(***************************************************************************)
At(s, i) == s[i + 1]

\* std::vector::erase(begin() + i)
Erase(s, i) == SubSeq(s, 1, i) \o SubSeq(s, i + 2, Len(s))

\* std::vector::insert(begin() + i, x)
Insert(s, i, x) == SubSeq(s, 1, i) \o << x >> \o SubSeq(s, i + 1, Len(s))

Range(s) == { s[j] : j \in 1 .. Len(s) }

\* Index (0-based) of the first element of s equal to x, Len(s) if none:
\* the value of the loop counter when the code's linear scans stop.
RECURSIVE Scan(_, _, _)
Scan(s, x, i) ==
    IF i >= Len(s) THEN Len(s)
    ELSE IF At(s, i) = x THEN i
    ELSE Scan(s, x, i + 1)

(***************************************************************************)
(* SystemBase<C, Priority>: a component store.                             *)
(***************************************************************************)
nullptr == [ alloc |-> FALSE, components |-> << >>, ids |-> << >>, it |-> 0 ]

\* new System<T>()
NewSystem == [ alloc |-> TRUE, components |-> << >>, ids |-> << >>, it |-> 0 ]

\* SystemBase::GetComponent: index of the component of entity id, -1 for nullptr
GetComponent(s, id) ==
    LET i == Scan(s.ids, id, 0)
    IN  IF i = Len(s.ids) THEN -1 ELSE i

\* AddComponent that does not look for a component of the entity first
AddComponent_NoLookup(s, id, v) ==
    [ s EXCEPT !.components = Append(@, v), !.ids = Append(@, id) ]

\* AddComponent that puts the new component in front of the others
AddComponent_Front(s, id, v) ==
    IF GetComponent(s, id) # -1
    THEN s
    ELSE [ s EXCEPT !.components = << v >> \o @, !.ids = << id >> \o @ ]

\* SystemBase::AddComponent
AddComponent(s, id, v) ==
    IF GetComponent(s, id) # -1
    THEN s
    ELSE [ s EXCEPT !.components = Append(@, v), !.ids = Append(@, id) ]

\* AddComponent that calls OnAdd before it appends the entity id
AddComponentEvents_Early(s, k, id, v) ==
    IF GetComponent(s, id) # -1 THEN << >>
    ELSE << << "OnAdd", k, id, v, Len(s.components), s.ids >> >>

\* OnAdd calls made by AddComponent(s, id, v) on the store of kind k: the
\* hook's arguments (id, value), the index of the component and the ids the
\* store holds when the hook is called
AddComponentEvents(s, k, id, v) ==
    IF GetComponent(s, id) # -1 THEN << >>
    ELSE << << "OnAdd", k, id, v, Len(s.components), Append(s.ids, id) >> >>

\* The size_t decrement of the cursor
DecIt(it) == (it - 1) % SizeMod

\* RemoveComponent that moves the last element into the slot it frees
RemoveComponent_SwapLast(s, id) ==
    LET i == Scan(s.ids, id, 0)
        n == Len(s.components)
    IN  IF i >= n
        THEN s
        ELSE [ s EXCEPT !.it = IF i <= s.it THEN DecIt(s.it) ELSE s.it,
                        !.components =
                            SubSeq([ s.components EXCEPT ![i + 1] = s.components[n] ],
                                   1, n - 1),
                        !.ids = SubSeq([ s.ids EXCEPT ![i + 1] = s.ids[n] ], 1, n - 1) ]

\* RemoveComponent that leaves the cursor alone
RemoveComponent_KeepCursor(s, id) ==
    LET i == Scan(s.ids, id, 0)
    IN  IF i >= Len(s.components)
        THEN s
        ELSE [ s EXCEPT !.components = Erase(@, i), !.ids = Erase(@, i) ]

\* SystemBase::RemoveComponent
RemoveComponent(s, id) ==
    LET i == Scan(s.ids, id, 0)
    IN  IF i >= Len(s.components)
        THEN s
        ELSE [ s EXCEPT !.it = IF i <= s.it THEN DecIt(s.it) ELSE s.it,
                        !.components = Erase(@, i),
                        !.ids = Erase(@, i) ]

\* OnRemove calls made by RemoveComponent(s, id) on the store of kind k:
\* the hook's arguments, the index of the component and the ids the store
\* holds when the hook is called
RemoveComponentEvents(s, k, id) ==
    LET i == Scan(s.ids, id, 0)
    IN  IF i >= Len(s.components) THEN << >>
        ELSE << << "OnRemove", k, id, At(s.components, i), i, s.ids >> >>

(***************************************************************************)
(* EntityManager::Systems.  The operators take and return the pair         *)
(* [systems, systems_prioritised] as the record [tab, pri].                *)
(***************************************************************************)
\* Systems::Has
SystemsHas(S, cid) == S.tab[cid].alloc

\* The loop of Systems::Add with <= for <: a new store goes before its equals
RECURSIVE InsertIndex_BeforeEquals(_, _, _)
InsertIndex_BeforeEquals(pri, p, i) ==
    IF i >= Len(pri) THEN Len(pri)
    ELSE IF priority[At(pri, i)] <= p THEN i
    ELSE InsertIndex_BeforeEquals(pri, p, i + 1)

\* The loop of Systems::Add: first index whose store has a lower priority
RECURSIVE InsertIndex(_, _, _)
InsertIndex(pri, p, i) ==
    IF i >= Len(pri) THEN Len(pri)
    ELSE IF priority[At(pri, i)] < p THEN i
    ELSE InsertIndex(pri, p, i + 1)

\* Systems::Add
SystemsAdd(S, cid, sys) ==
    IF S.tab[cid].alloc
    THEN S
    ELSE [ tab |-> [ S.tab EXCEPT ![cid] = sys ],
           pri |-> Insert(S.pri, InsertIndex(S.pri, priority[cid], 0), cid) ]

\* The loop of Systems::Delete (it goes on after an erase)
RECURSIVE DeleteLoop(_, _, _)
DeleteLoop(pri, cid, i) ==
    IF i >= Len(pri) THEN pri
    ELSE IF At(pri, i) = cid THEN DeleteLoop(Erase(pri, i), cid, i + 1)
    ELSE DeleteLoop(pri, cid, i + 1)

\* Systems::Delete
SystemsDelete(S, cid) ==
    IF ~S.tab[cid].alloc
    THEN S
    ELSE [ tab |-> [ S.tab EXCEPT ![cid] = nullptr ],
           pri |-> DeleteLoop(S.pri, cid, 0) ]

\* EntityManager::GetSystem<T>: the registry after the call
GetSystem(S, cid) ==
    IF SystemsHas(S, cid) = FALSE THEN SystemsAdd(S, cid, NewSystem) ELSE S

\* AddSystem that registers the new store whether or not the kind has one
AddSystemT_Always(S, cid) ==
    [ tab |-> [ S.tab EXCEPT ![cid] = NewSystem ],
      pri |-> Insert(S.pri, InsertIndex(S.pri, priority[cid], 0), cid) ]

\* EntityManager::AddSystem<T>(args): the registry after the call
AddSystemT(S, cid) ==
    IF SystemsHas(S, cid) = TRUE THEN S ELSE SystemsAdd(S, cid, NewSystem)

\* ReplaceSystem that forgets to delete the old store first
ReplaceSystem_NoDelete(S, cid, new_sys) == SystemsAdd(S, cid, new_sys)

\* EntityManager::ReplaceSystem<T>
ReplaceSystem(S, cid, new_sys) == SystemsAdd(SystemsDelete(S, cid), cid, new_sys)

\* Systems::Add(mgr, cid, nullptr).  After the check of systems[cid] the
\* code writes sys->mgr through the null pointer: undefined behaviour.
\* Either the write traps (fault), or it does not and Add goes on:
\* systems[cid] = nullptr, then the loop over systems_prioritised, which
\* calls sys->GetPriority() through the null pointer (followed no further:
\* fault) unless the list is empty, then the insert of the null pointer,
\* recorded in the list as -1.
SystemsAddNull(S, cid, traps) ==
    IF S.tab[cid].alloc THEN [ reg |-> S, fault |-> "none" ]
    ELSE IF traps \/ S.pri # << >> THEN [ reg |-> S, fault |-> "nullptr" ]
    ELSE [ reg |-> [ tab |-> [ S.tab EXCEPT ![cid] = nullptr ],
                     pri |-> Insert(S.pri, 0, -1) ],
           fault |-> "none" ]

\* EntityManager::ReplaceSystem<T>(nullptr)
ReplaceSystemNull(S, cid, traps) == SystemsAddNull(SystemsDelete(S, cid), cid, traps)

Registry == [ tab |-> systems, pri |-> systems_prioritised ]


(***************************************************************************)
(* Entity.  The operators return what the call leaves behind: the registry *)
(* (reg), the entity's bitset (bits), the returned pointer as an index     *)
(* into the store's components (ret, -1 for nullptr) and the OnAdd /       *)
(* OnRemove calls that were made (events).                                 *)
(***************************************************************************)
\* Entity::Add that constructs the component again on a duplicate add
EntityAdd_Overwrite(S, bits, id, cid, v) ==
    LET S1 == GetSystem(S, cid)
        sys == S1.tab[cid]
        i == GetComponent(sys, id)
    IN  IF cid \in bits
        THEN [ reg |-> [ S1 EXCEPT !.tab[cid].components[i + 1] = v ],
               bits |-> bits, ret |-> i, events |-> << >> ]
        ELSE LET sys2 == AddComponent(sys, id, v)
             IN  [ reg |-> [ S1 EXCEPT !.tab[cid] = sys2 ],
                   bits |-> bits \cup { cid },
                   ret |-> GetComponent(sys2, id),
                   events |-> AddComponentEvents(sys, cid, id, v) ]

\* Entity::Add<T>(args)
EntityAdd(S, bits, id, cid, v) ==
    LET S1 == GetSystem(S, cid)
        sys == S1.tab[cid]
    IN  IF cid \in bits
        THEN [ reg |-> S1, bits |-> bits, ret |-> GetComponent(sys, id),
               events |-> << >> ]
        ELSE LET sys2 == AddComponent(sys, id, v)
             IN  [ reg |-> [ S1 EXCEPT !.tab[cid] = sys2 ],
                   bits |-> bits \cup { cid },
                   ret |-> GetComponent(sys2, id),
                   events |-> AddComponentEvents(sys, cid, id, v) ]

\* Entity::Get<T>()
EntityGet(S, bits, id, cid) ==
    IF cid \notin bits
    THEN [ reg |-> S, bits |-> bits, ret |-> -1, events |-> << >> ]
    ELSE LET S1 == GetSystem(S, cid)
         IN  [ reg |-> S1, bits |-> bits, ret |-> GetComponent(S1.tab[cid], id),
               events |-> << >> ]

\* Entity::Remove that forgets components.set(cid, false)
EntityRemove_KeepBit(S, bits, id, cid) ==
    LET S1 == GetSystem(S, cid)
        sys == S1.tab[cid]
    IN  [ reg |-> [ S1 EXCEPT !.tab[cid] = RemoveComponent(sys, id) ],
          bits |-> bits,
          ret |-> -1,
          events |-> RemoveComponentEvents(sys, cid, id) ]

\* Entity::Remove<T>()
EntityRemove(S, bits, id, cid) ==
    LET S1 == GetSystem(S, cid)
        sys == S1.tab[cid]
    IN  [ reg |-> [ S1 EXCEPT !.tab[cid] = RemoveComponent(sys, id) ],
          bits |-> bits \ { cid },
          ret |-> -1,
          events |-> RemoveComponentEvents(sys, cid, id) ]

\* Entity::Has<First, Types...>(): cids is the list of the kinds asked for
RECURSIVE HasComponent(_, _, _)
HasComponent(bits, cids, I) ==
    IF I > Len(cids) THEN TRUE
    ELSE IF cids[I] \in bits THEN HasComponent(bits, cids, I + 1)
    ELSE FALSE

EntityHas(bits, cids) ==
    LET ret == cids[1] \in bits
    IN  IF ret = FALSE \/ Len(cids) = 1 THEN ret
        ELSE HasComponent(bits, cids, 2)

(***************************************************************************)
(* EntityManager::Entities.                                                *)
(***************************************************************************)
\* The loop of Entities::Destroy over the bits of the entity.  Asking an
\* absent store (nullptr) to remove a component is undefined behaviour.
RECURSIVE DestroyLoop(_, _, _, _)
DestroyLoop(R, bits, id, i) ==
    IF i >= MAX_COMPONENTS THEN R
    ELSE IF i \notin bits THEN DestroyLoop(R, bits, id, i + 1)
    ELSE IF ~R.reg.tab[i].alloc
         THEN [ R EXCEPT !.fault = "nullptr" ]
    ELSE DestroyLoop(
            [ reg |-> [ R.reg EXCEPT !.tab[i] = RemoveComponent(@, id) ],
              events |-> R.events \o RemoveComponentEvents(R.reg.tab[i], i, id),
              fault |-> R.fault ],
            bits, id, i + 1)

\* Entities::Destroy that stops at the first component it removed
EntitiesDestroy_FirstOnly(S, bits, id) ==
    IF bits = { } THEN [ reg |-> S, events |-> << >>, fault |-> "none" ]
    ELSE LET i == CHOOSE x \in bits : \A y \in bits : x <= y
         IN  DestroyLoop([ reg |-> S, events |-> << >>, fault |-> "none" ],
                         { i }, id, 0)

\* Entities::Destroy: the registry, the OnRemove calls and the fault
EntitiesDestroy(S, bits, id) ==
    DestroyLoop([ reg |-> S, events |-> << >>, fault |-> "none" ], bits, id, 0)

\* Entities::Create that numbers the new entity after the size of the map
EntitiesCreate_BySize(ids, ents) ==
    LET n == Cardinality(DOMAIN ents) + 1
    IN  [ entity_ids |-> ids + 1,
          entities |-> [ x \in (DOMAIN ents) \cup { n } |->
                            IF x = n THEN { } ELSE ents[x] ],
          id |-> n ]

\* Entities::Create: the counter, the map and the id of the new entity
EntitiesCreate(ids, ents) ==
    [ entity_ids |-> ids + 1,
      entities |-> [ x \in (DOMAIN ents) \cup { ids + 1 } |->
                        IF x = ids + 1 THEN { } ELSE ents[x] ],
      id |-> ids + 1 ]

\* entities.erase(e->id)
EraseEntity(ents, id) == [ x \in (DOMAIN ents) \ { id } |-> ents[x] ]

\* Entities::Get: TRUE iff a non-null Entity* comes back
EntitiesGet(ents, id) == IF id \notin DOMAIN ents THEN FALSE ELSE TRUE

\* std::unordered_map::operator[]: the map after entities[id] was evaluated
\* (a key that is missing is inserted, with a null Entity*, here no bits)
Subscript(ents, id) ==
    IF id \in DOMAIN ents THEN ents
    ELSE [ x \in (DOMAIN ents) \cup { id } |-> IF x = id THEN { } ELSE ents[x] ]

\* Entities::Get that goes to entities[id] without asking count(id) first
GetByID_NoCount(ents, id) ==
    [ entities |-> Subscript(ents, id),
      ret |-> IF id \in DOMAIN ents THEN id ELSE 0 ]

\* EntityManager::GetByID, that is Entities::Get: the map it leaves and the
\* Entity* it returns (the entity's id, 0 for nullptr)
GetByID(ents, id) ==
    IF Cardinality({ x \in DOMAIN ents : x = id }) = 0
    THEN [ entities |-> ents, ret |-> 0 ]
    ELSE [ entities |-> Subscript(ents, id), ret |-> id ]

(***************************************************************************)
(* Bookkeeping of the model.                                               *)
(***************************************************************************)
NoCopy == [ kind |-> -1, sys |-> nullptr ]

Op(op, e, k, arg, ret, val, events) ==
    [ op |-> op, e |-> e, k |-> k, arg |-> arg, ret |-> ret, val |-> val,
      events |-> events ]

Internal(op) == Op(op, 0, -1, 0, -1, 0, << >>)

\* Value behind a returned component pointer (0 behind nullptr)
Deref(sys, ret) == IF ret = -1 THEN 0 ELSE At(sys.components, ret)

\* main() is not part of the run
NoMain == [ at |-> "off", i |-> 0, swap |-> FALSE, player_id |-> 0,
            printed |-> << >>, died |-> << >>, visits |-> << >> ]

EmptyHist ==
    [ start |-> << >>,      \* systems_prioritised when the tick started
      runs |-> << >>,       \* kinds whose Manage() was entered, in order
      pass_ids |-> << >>,   \* ids of the running store when its pass started
      visited |-> << >>,    \* entity ids handed to the hook in this pass
      calls |-> << >> ]     \* calls made by hooks in this pass

\* The application is between two calls
Idle == pc = "idle" /\ fault = "none"

\* ... and free to call the entities: unless scope.busy, it posts a copy it
\* took (GetSystemCopy, writes, ReplaceSystem as in main.cpp) before it
\* calls anything else
Free == Idle /\ (copy = [ kind |-> -1, sys |-> nullptr ] \/ scope.busy)
InHook ==
    /\ pc = "hook" /\ fault = "none"
    /\ hook_ops < MaxHookOps
    /\ Len(hist.calls) < scope.calls

TypeOK ==
    /\ entity_ids \in 0 .. MaxEntities
    /\ DOMAIN entities \subseteq EntityIds
    /\ \A e \in DOMAIN entities : entities[e] \subseteq Kinds
    /\ DOMAIN systems = Kinds
    /\ \A k \in Kinds : systems[k].it \in 0 .. (SizeMod - 1)
    /\ Range(systems_prioritised) \subseteq Kinds
    /\ pc \in { "idle", "dispatch", "pass", "hook" }
    /\ fault \in { "none", "nullptr" }

\* The state after EntityManager's construction.  sc bounds the run:
\*   ents   entities created at most      kinds  component kinds used
\*   vals   constructor arguments used    calls  calls the hooks of one pass make
\*   busy   whether the application calls the manager while it holds a copy
\* tab gives each kind's compile-time priority, m is where main() stands.
InitWith(sc, tab, m) ==
    /\ scope = sc
    /\ main = m
    /\ priority = tab
    /\ entity_ids = 0
    /\ entities = << >>
    /\ systems = [ k \in Kinds |-> nullptr ]
    /\ systems_prioritised = << >>
    /\ copy = NoCopy
    /\ pc = "idle"
    /\ sys_i = 0
    /\ cur = -1
    /\ hook_eid = 0
    /\ hook_ops = 0
    /\ last = Internal("init")
    /\ fault = "none"
    /\ hist = EmptyHist
    /\ contract_broken = FALSE
    /\ ghost = [ registered |-> << >>, created |-> << >>, destroyed |-> { },
                 lost |-> { } ]

(***************************************************************************)
(* The calls of the public interface, made by the application between      *)
(* ticks (Idle) or by an update hook (InHook).                             *)
(***************************************************************************)
Caller == Free \/ InHook

\* The cursor of a store matters only while its own pass runs: every pass
\* starts by it = 0 and RemoveComponent reads it only to update it.  Outside
\* the pass the value is dead, and the model records it as 0.
Running == IF pc = "hook" THEN cur ELSE -1

Settle(tab, running) ==
    [ k \in Kinds |-> IF k = running THEN tab[k] ELSE [ tab[k] EXCEPT !.it = 0 ] ]

\* The stores in registration order, after a call that left the table tab
\* (a call registers at most one store)
Registered(tab, seq) ==
    seq \o IF \E k \in Kinds : tab[k].alloc /\ k \notin Range(seq)
           THEN << CHOOSE k \in Kinds : tab[k].alloc /\ k \notin Range(seq) >>
           ELSE << >>

\* What a call leaves of the control state and of the tick's history
Called(name, e, k) ==
    /\ hook_ops' = IF pc = "hook" THEN hook_ops + 1 ELSE hook_ops
    /\ hist' = IF pc = "hook"
               THEN [ hist EXCEPT !.calls = Append(@, << hook_eid, name, e, k >>) ]
               ELSE hist
    /\ ghost' = [ ghost EXCEPT
                    !.registered = Registered(systems', @),
                    !.destroyed = IF name = "Destroy" /\ e \notin DOMAIN entities'
                                  THEN @ \cup { e } ELSE @,
                    !.lost = IF name = "Destroy" /\ pc = "hook"
                             THEN @ \cup (entities[e] \ { cur }) ELSE @ ]
    /\ UNCHANGED << priority, scope, copy, pc, sys_i, cur, hook_eid, contract_broken,
                    main >>

\* EntityManager::CreateEntity
CreateEntity ==
    /\ Free
    /\ entity_ids < scope.ents
    /\ LET r == EntitiesCreate(entity_ids, entities)
       IN  /\ entity_ids' = r.entity_ids
           /\ entities' = r.entities
           /\ last' = Op("Create", r.id, -1, 0, -1, 0, << >>)
           /\ ghost' = [ ghost EXCEPT !.created = Append(@, r.id) ]
    /\ UNCHANGED << priority, systems, systems_prioritised, copy, pc, sys_i, cur,
                    hook_eid, hook_ops, fault, hist, scope, contract_broken, main >>

\* e->Add<T>(v)
Add(e, k, v) ==
    /\ Caller
    /\ e \in DOMAIN entities
    /\ LET r == EntityAdd(Registry, entities[e], e, k, v)
       IN  /\ systems' = Settle(r.reg.tab, Running)
           /\ systems_prioritised' = r.reg.pri
           /\ entities' = [ entities EXCEPT ![e] = r.bits ]
           /\ last' = Op("Add", e, k, v, r.ret, Deref(r.reg.tab[k], r.ret), r.events)
    /\ Called("Add", e, k)
    /\ UNCHANGED << entity_ids, fault >>

\* e->Get<T>()
Get(e, k) ==
    /\ Free
    /\ e \in DOMAIN entities
    /\ LET r == EntityGet(Registry, entities[e], e, k)
       IN  /\ systems' = Settle(r.reg.tab, Running)
           /\ systems_prioritised' = r.reg.pri
           /\ entities' = [ entities EXCEPT ![e] = r.bits ]
           /\ last' = Op("Get", e, k, 0, r.ret, Deref(r.reg.tab[k], r.ret), r.events)
    /\ Called("Get", e, k)
    /\ UNCHANGED << entity_ids, fault >>

\* e->Remove<T>()
Remove(e, k) ==
    /\ Caller
    /\ e \in DOMAIN entities
    /\ LET r == EntityRemove(Registry, entities[e], e, k)
       IN  /\ systems' = Settle(r.reg.tab, Running)
           /\ systems_prioritised' = r.reg.pri
           /\ entities' = [ entities EXCEPT ![e] = r.bits ]
           /\ last' = Op("Remove", e, k, 0, -1, 0, r.events)
    /\ Called("Remove", e, k)
    /\ UNCHANGED << entity_ids, fault >>

\* e->Destroy()
Destroy(e) ==
    /\ Caller
    /\ e \in DOMAIN entities
    /\ LET r == EntitiesDestroy(Registry, entities[e], e)
       IN  /\ systems' = Settle(r.reg.tab, Running)
           /\ systems_prioritised' = r.reg.pri
           /\ fault' = r.fault
           /\ entities' = IF r.fault = "none" THEN EraseEntity(entities, e)
                          ELSE entities
           /\ last' = Op("Destroy", e, -1, 0, -1, 0, r.events)
    /\ Called("Destroy", e, -1)
    /\ UNCHANGED << entity_ids >>

\* e->Has<First, Types...>() for the kinds of the list cids
Has(e, cids) ==
    /\ Free
    /\ e \in DOMAIN entities
    /\ last' = Op("Has", e, cids[1], cids, -1,
                  IF EntityHas(entities[e], cids) THEN 1 ELSE 0, << >>)
    /\ UNCHANGED << priority, scope, entity_ids, entities, systems,
                    systems_prioritised, copy, fault, contract_broken, main, ghost,
                    pc, sys_i, cur, hook_eid, hook_ops, hist >>

\* mgr.GetByID(id), for any id the application may have kept
Lookup(id) ==
    /\ Free
    /\ LET r == GetByID(entities, id)
       IN  /\ entities' = r.entities
           /\ last' = Op("GetByID", id, -1, 0, r.ret, 0, << >>)
    /\ UNCHANGED << priority, scope, entity_ids, systems, systems_prioritised, copy,
                    fault, contract_broken, main, ghost, pc, sys_i, cur, hook_eid,
                    hook_ops, hist >>

(***************************************************************************)
(* Stores handled as a whole by the application, between ticks.            *)
(***************************************************************************)
Control == << pc, sys_i, cur, hook_eid, hook_ops, hist >>

\* mgr.AddSystem<T>()
AddSystem(k) ==
    /\ Free
    /\ LET S1 == AddSystemT(Registry, k)
       IN  /\ systems' = Settle(S1.tab, Running)
           /\ systems_prioritised' = S1.pri
    /\ last' = Op("AddSystem", 0, k, 0, -1, 0, << >>)
    /\ ghost' = [ ghost EXCEPT !.registered = Registered(systems', @) ]
    /\ UNCHANGED << priority, scope, entity_ids, entities, copy, fault,
                    contract_broken, main, Control >>

\* mgr.GetSystemCopy<T>(); the application holds one copy at a time
GetSystemCopy(k) ==
    /\ Idle
    /\ copy = NoCopy
    /\ copy' = IF systems[k] = nullptr THEN NoCopy
               ELSE [ kind |-> k, sys |-> systems[k] ]
    /\ last' = Op("GetSystemCopy", 0, k, 0, IF systems[k] = nullptr THEN -1 ELSE 0,
                  0, << >>)
    /\ UNCHANGED << priority, scope, entity_ids, entities, systems,
                    systems_prioritised, fault, contract_broken, main, ghost,
                    Control >>

\* The application writes a component of the copy it holds (main.cpp: += 1)
WriteCopy(j, v) ==
    /\ Idle
    /\ copy # NoCopy
    /\ j < Len(copy.sys.components)
    /\ At(copy.sys.components, j) # v
    /\ copy' = [ copy EXCEPT !.sys.components[j + 1] = v ]
    /\ last' = Op("WriteCopy", 0, copy.kind, v, j, v, << >>)
    /\ UNCHANGED << priority, scope, entity_ids, entities, systems,
                    systems_prioritised, fault, contract_broken, main, ghost,
                    Control >>

\* The documented contract of ReplaceSystem: the replacement changes
\* component data only, not the storage or the entity ids.
SameAssociations(new_sys, cid) == new_sys.ids = systems[cid].ids

\* Number of components of old whose value new_sys changes
Changed(old, new_sys) ==
    Cardinality({ j \in 1 .. Len(old.components) :
                    j <= Len(new_sys.components)
                    /\ old.components[j] # new_sys.components[j] })

ReplaceWith(k) ==
    /\ Idle
    /\ copy # NoCopy
    /\ copy.kind = k
    /\ LET S1 == ReplaceSystem(Registry, k, copy.sys)
       IN  /\ systems' = Settle(S1.tab, Running)
           /\ systems_prioritised' = S1.pri
    /\ copy' = NoCopy
    /\ last' = Op("ReplaceSystem", 0, k, Changed(systems[k], copy.sys), -1, 0, << >>)
    /\ ghost' = [ ghost EXCEPT !.registered =
                    Registered(systems', SelectSeq(@, LAMBDA x : x # k)) ]
    /\ UNCHANGED << priority, scope, entity_ids, entities, fault, main, Control >>

\* mgr.ReplaceSystem<T>(copy), called as documented
ReplaceSystemOp(k) ==
    /\ ReplaceWith(k)
    /\ SameAssociations(copy.sys, k)
    /\ UNCHANGED contract_broken

\* mgr.ReplaceSystem<T>(copy) with a copy that went stale
ReplaceSystemStale(k) ==
    /\ ReplaceWith(k)
    /\ ~SameAssociations(copy.sys, k)
    /\ contract_broken' = TRUE

\* mgr.GetSystemCopy<T>() returns nullptr (the kind has no store) and the
\* application keeps the pointer to post it, as main.cpp does with every
\* result of GetSystemCopy
GetSystemCopyNull(k) ==
    /\ Idle
    /\ copy = NoCopy
    /\ systems[k] = nullptr
    /\ copy' = [ kind |-> k, sys |-> nullptr ]
    /\ last' = Op("GetSystemCopy", 0, k, 0, -1, 0, << >>)
    /\ UNCHANGED << priority, scope, entity_ids, entities, systems,
                    systems_prioritised, fault, contract_broken, main, ghost,
                    Control >>

\* mgr.ReplaceSystem<T>(h) with the null pointer GetSystemCopy returned
PostNull(k, traps) ==
    /\ Idle
    /\ copy = [ kind |-> k, sys |-> nullptr ]
    /\ LET r == ReplaceSystemNull(Registry, k, traps)
       IN  /\ systems' = Settle(r.reg.tab, Running)
           /\ systems_prioritised' = r.reg.pri
           /\ fault' = r.fault
    /\ copy' = NoCopy
    /\ contract_broken' = (contract_broken \/ systems[k].ids # << >>)
    /\ last' = Op("ReplaceSystem", 0, k, 0, -1, 0, << >>)
    /\ ghost' = [ ghost EXCEPT !.registered = SelectSeq(@, LAMBDA x : x # k) ]
    /\ UNCHANGED << priority, scope, entity_ids, entities, main, Control >>

(***************************************************************************)
(* The tick: Systems::Manage calling SystemBase::Manage calling the hook.  *)
(***************************************************************************)
Data == << priority, scope, entity_ids, entities, copy, fault, contract_broken,
          main, ghost >>

\* mgr.Manage() is called
Manage ==
    /\ Free
    /\ pc' = "dispatch"
    /\ sys_i' = 0
    /\ hist' = [ EmptyHist EXCEPT !.start = systems_prioritised ]
    /\ last' = Internal("Manage")
    /\ UNCHANGED << Data, systems, systems_prioritised, cur, hook_eid, hook_ops >>

\* Systems::Manage: i < systems_prioritised.size(), the store's Manage() is
\* entered and sets it = 0
EnterPass ==
    /\ pc = "dispatch" /\ fault = "none"
    /\ sys_i < Len(systems_prioritised)
    /\ LET k == At(systems_prioritised, sys_i)
       IN  /\ cur' = k
           /\ systems' = [ systems EXCEPT ![k].it = 0 ]
           /\ hist' = [ hist EXCEPT !.runs = Append(@, k),
                                    !.pass_ids = systems[k].ids,
                                    !.visited = << >>,
                                    !.calls = << >> ]
    /\ pc' = "pass"
    /\ last' = Internal("EnterPass")
    /\ UNCHANGED << Data, systems_prioritised, sys_i, hook_eid, hook_ops >>

\* Systems::Manage: the loop is over, the tick returns
TickDone == pc = "dispatch" /\ sys_i >= Len(systems_prioritised)

ReturnFromManage ==
    /\ TickDone /\ fault = "none"
    /\ pc' = "idle"
    /\ hist' = EmptyHist
    /\ last' = Internal("ReturnFromManage")
    /\ UNCHANGED << Data, systems, systems_prioritised, sys_i, cur, hook_eid,
                    hook_ops >>

\* SystemBase::Manage: it < components.size(), Manage(ids[it], components[it])
CallHook ==
    /\ pc = "pass" /\ fault = "none"
    /\ systems[cur].it < Len(systems[cur].components)
    /\ hook_eid' = At(systems[cur].ids, systems[cur].it)
    /\ hook_ops' = 0
    /\ hist' = [ hist EXCEPT !.visited = Append(@, At(systems[cur].ids, systems[cur].it)) ]
    /\ pc' = "hook"
    /\ last' = Internal("CallHook")
    /\ UNCHANGED << Data, systems, systems_prioritised, sys_i, cur >>

\* SystemBase::Manage: the loop is over; Systems::Manage does ++i
PassDone == pc = "pass" /\ systems[cur].it >= Len(systems[cur].components)

LeavePass ==
    /\ PassDone /\ fault = "none"
    /\ sys_i' = sys_i + 1
    /\ pc' = "dispatch"
    /\ last' = Internal("LeavePass")
    /\ systems' = Settle(systems, -1)
    /\ ghost' = [ ghost EXCEPT !.lost = @ \ { cur } ]
    /\ UNCHANGED << priority, scope, entity_ids, entities, copy, fault,
                    contract_broken, main, systems_prioritised, cur, hook_eid,
                    hook_ops, hist >>

\* The hook returns; SystemBase::Manage does ++it
IncIt(it) == (it + 1) % SizeMod

ReturnFromHook ==
    /\ pc = "hook" /\ fault = "none"
    /\ systems' = [ systems EXCEPT ![cur].it = IncIt(@) ]
    /\ pc' = "pass"
    /\ last' = Internal("ReturnFromHook")
    /\ UNCHANGED << Data, systems_prioritised, sys_i, cur, hook_eid, hook_ops, hist >>

(***************************************************************************)
(* Specifications.                                                         *)
(***************************************************************************)
Tick == Manage \/ EnterPass \/ CallHook \/ ReturnFromHook \/ LeavePass
            \/ ReturnFromManage

Scope(ents, kinds, vals, calls, busy) ==
    [ ents |-> ents, kinds |-> kinds, vals |-> vals, calls |-> calls, busy |-> busy ]

\* Priorities of the example of the specification: X:10, Y:20, Z:20
PriorityXYZ == [ k \in Kinds |-> IF k = 0 THEN 10 ELSE 20 ]

\* The application between ticks: entities, components, stores, copies.
Next ==
    \/ CreateEntity
    \/ \E e \in EntityIds, k \in scope.kinds, v \in scope.vals : Add(e, k, v)
    \/ \E e \in EntityIds, k \in scope.kinds : Get(e, k)
    \/ \E e \in EntityIds, k \in scope.kinds : Remove(e, k)
    \/ \E e \in EntityIds : Destroy(e)
    \/ \E k \in scope.kinds : AddSystem(k)
    \/ \E k \in scope.kinds : GetSystemCopy(k)
    \/ \E j \in 0 .. (MaxEntities - 1), v \in scope.vals : WriteCopy(j, v)
    \/ \E k \in scope.kinds : ReplaceSystemOp(k)

Init == InitWith(Scope(MaxEntities - 1, { 0, 1 }, Vals, 0, FALSE), PriorityXYZ, NoMain)

Spec == Init /\ [][Next]_vars

\* One store, MaxEntities entities, hooks that add, remove and destroy.
NextPass ==
    \/ CreateEntity
    \/ \E e \in EntityIds, k \in scope.kinds, v \in scope.vals : Add(e, k, v)
    \/ \E e \in EntityIds, k \in scope.kinds : Remove(e, k)
    \/ \E e \in EntityIds : Destroy(e)
    \/ Tick

InitPass ==
    InitWith(Scope(MaxEntities, { 0 }, { 1 }, MaxPassCalls, FALSE), PriorityXYZ, NoMain)

SpecPass == InitPass /\ [][NextPass]_vars

\* Two stores, two entities, hooks that add, remove and destroy.
InitCross ==
    InitWith(Scope(MaxEntities - 1, { 0, 1 }, { 1 }, MaxPassCalls, FALSE), PriorityXYZ,
             NoMain)

SpecCross == InitCross /\ [][NextPass]_vars

\* All the kinds, one entity: registration, replacement and dispatch order.
NextSched ==
    \/ CreateEntity
    \/ \E e \in EntityIds, k \in scope.kinds, v \in scope.vals : Add(e, k, v)
    \/ \E e \in EntityIds, k \in scope.kinds : Remove(e, k)
    \/ \E k \in scope.kinds : AddSystem(k)
    \/ \E k \in scope.kinds : GetSystemCopy(k)
    \/ \E k \in scope.kinds : ReplaceSystemOp(k)
    \/ Tick

InitSched ==
    InitWith(Scope(1, Kinds, { 1 }, MaxPassCalls, FALSE), PriorityXYZ, NoMain)

SpecSched == InitSched /\ [][NextSched]_vars

\* An application that also posts copies that went stale; the run is
\* followed until the contract of ReplaceSystem is broken.
NextStale ==
    /\ ~contract_broken
    /\ \/ CreateEntity
       \/ \E e \in EntityIds, k \in scope.kinds, v \in scope.vals : Add(e, k, v)
       \/ \E e \in EntityIds, k \in scope.kinds : Remove(e, k)
       \/ \E e \in EntityIds : Destroy(e)
       \/ \E k \in scope.kinds : GetSystemCopy(k)
       \/ \E k \in scope.kinds : ReplaceSystemOp(k)
       \/ \E k \in scope.kinds : ReplaceSystemStale(k)
       \/ Tick

InitStale ==
    InitWith(Scope(MaxEntities - 1, { 0, 1 }, { 1 }, MaxPassCalls - 1, TRUE),
             PriorityXYZ, NoMain)

SpecStale == InitStale /\ [][NextStale]_vars

\* An application that keeps entity ids across ticks and looks them up, as
\* main.cpp does; hooks destroy entities.
NextLookup ==
    \/ CreateEntity
    \/ \E e \in EntityIds, k \in scope.kinds, v \in scope.vals : Add(e, k, v)
    \/ \E e \in EntityIds : Destroy(e)
    \/ \E id \in 0 .. MaxEntities : Lookup(id)
    \/ Tick

InitLookup ==
    InitWith(Scope(MaxEntities, { 0 }, { 1 }, MaxPassCalls - 1, FALSE), PriorityXYZ,
             NoMain)

SpecLookup == InitLookup /\ [][NextLookup]_vars

\* The constructor argument the application uses for entity e: not the same
\* for all the entities
ArgOf(e) == (e % MaxVal) + 1

\* One kind, any sequence of calls: the run goes on after a copy that went
\* stale was posted.
NextAny ==
    \/ CreateEntity
    \/ \E e \in EntityIds, k \in scope.kinds, v \in scope.vals : Add(e, k, v)
    \/ \E e \in EntityIds, k \in scope.kinds : Remove(e, k)
    \/ \E e \in EntityIds : Destroy(e)
    \/ \E k \in scope.kinds : GetSystemCopy(k)
    \/ \E k \in scope.kinds : ReplaceSystemOp(k)
    \/ \E k \in scope.kinds : ReplaceSystemStale(k)
    \/ Tick

InitAny ==
    InitWith(Scope(MaxEntities - 1, { 0 }, { 1 }, MaxPassCalls, TRUE), PriorityXYZ,
             NoMain)

SpecAny == InitAny /\ [][NextAny]_vars

\* Components of two kinds added between ticks, hooks that destroy entities
\* (as System<Health>::Manage of main.cpp does).
NextDestroy ==
    \/ CreateEntity
    \/ \E e \in EntityIds, k \in scope.kinds : Free /\ Add(e, k, ArgOf(e))
    \/ \E e \in EntityIds : InHook /\ Destroy(e)
    \/ Tick

InitDestroy ==
    InitWith(Scope(MaxEntities, { 0, 1 }, Vals, MaxPassCalls - 1, FALSE), PriorityXYZ,
             NoMain)

SpecDestroy == InitDestroy /\ [][NextDestroy]_vars

\* No null pointer stands in the dispatch list
Intact == \A j \in 1 .. Len(systems_prioritised) : systems_prioritised[j] \in Kinds

\* An application that posts whatever GetSystemCopy returned, also the null
\* pointer it returns for a kind without a store, and makes other calls in
\* between.  Once a null pointer stands in the dispatch list the run
\* follows only the calls that do not read the list.
NextNull ==
    \/ /\ Intact
       /\ \/ CreateEntity
          \/ \E e \in EntityIds, k \in scope.kinds, v \in scope.vals : Add(e, k, v)
          \/ \E e \in EntityIds, k \in scope.kinds : Remove(e, k)
          \/ \E k \in scope.kinds : GetSystemCopy(k)
          \/ \E k \in scope.kinds : GetSystemCopyNull(k)
          \/ \E k \in scope.kinds : copy.sys.alloc /\ ReplaceSystemOp(k)
          \/ Tick
    \/ \E e \in EntityIds : Destroy(e)
    \/ \E k \in scope.kinds, traps \in BOOLEAN : PostNull(k, traps)

InitNull ==
    InitWith(Scope(MaxEntities - 1, { 0 }, { 1 }, MaxPassCalls - 1, TRUE), PriorityXYZ,
             NoMain)

SpecNull == InitNull /\ [][NextNull]_vars

\* A kind that takes the default of the template parameter Priority
\* (System<C> : SystemBase<C>) and a kind that names its priority
\* (SystemBase<C, p>); p is a uint32_t, so UINT8_MAX + 1 is a value it can take.
DefaultKind == 0

ExplicitPriorities == { 0, UINT8_MAX, UINT8_MAX + 1 }

PriorityDefault(p) == [ k \in Kinds |-> IF k = DefaultKind THEN UINT8_MAX ELSE p ]

NextPriority ==
    \/ CreateEntity
    \/ \E e \in EntityIds, k \in scope.kinds, v \in scope.vals : Add(e, k, v)
    \/ \E k \in scope.kinds : AddSystem(k)
    \/ Tick

InitPriority ==
    \E p \in ExplicitPriorities :
        InitWith(Scope(1, { 0, 1 }, { 1 }, MaxPassCalls - 1, FALSE), PriorityDefault(p),
                 NoMain)

SpecPriority == InitPriority /\ [][NextPriority]_vars

\* The lists of one or two kinds a call of Has<...>() may name
HasLists(kinds) ==
    { << a >> : a \in kinds } \cup { << a, b >> : a \in kinds, b \in kinds }

\* Calls for kinds the entity has and for kinds it has not, by the
\* application and (Add, Remove) by hooks.
NextAbsent ==
    \/ CreateEntity
    \/ \E e \in EntityIds, k \in scope.kinds, v \in scope.vals : Add(e, k, v)
    \/ \E e \in EntityIds, k \in scope.kinds : Get(e, k)
    \/ \E e \in EntityIds, k \in scope.kinds : Remove(e, k)
    \/ \E e \in EntityIds, cids \in HasLists(scope.kinds) : Has(e, cids)
    \/ Tick

InitAbsent ==
    InitWith(Scope(MaxEntities - 1, { 0, 1 }, { 1 }, MaxPassCalls - 1, FALSE),
             PriorityXYZ, NoMain)

SpecAbsent == InitAbsent /\ [][NextAbsent]_vars


(***************************************************************************)
(* src/main.cpp: the Health / PoisonDamage program.                        *)
(***************************************************************************)
HEALTH == 0              \* enum ComponentID
POISON_DAMAGE == 1
InitialHealth == 15      \* player->Add<Health>(15)
DmgRate == 5             \* PoisonDamage::dmg_rate
MainTicks == 5           \* for(size_t i = 0; i < 5; ++i)

\* System<Health> : SystemBase<Health, 0>, System<PoisonDamage> : SystemBase<PoisonDamage>
PriorityMain == [ k \in Kinds |-> IF k = HEALTH THEN 0 ELSE UINT8_MAX ]

\* System<Health>::Manage with < for <=
HealthManage_Strict(S, ents, eid, h) ==
    IF h < 0
    THEN LET r == EntitiesDestroy(S, ents[eid], eid)
         IN  [ reg |-> r.reg, entities |-> EraseEntity(ents, eid),
               destroyed |-> TRUE, fault |-> r.fault ]
    ELSE [ reg |-> S, entities |-> ents, destroyed |-> FALSE, fault |-> "none" ]

\* System<Health>::Manage(e, h): the registry and the entities it leaves
HealthManage(S, ents, eid, h) ==
    IF h <= 0
    THEN LET r == EntitiesDestroy(S, ents[eid], eid)
         IN  [ reg |-> r.reg, entities |-> EraseEntity(ents, eid),
               destroyed |-> TRUE, fault |-> r.fault ]
    ELSE [ reg |-> S, entities |-> ents, destroyed |-> FALSE, fault |-> "none" ]

\* System<PoisonDamage>::Manage(e, p)
PoisonManage(S, ents, eid, p) ==
    IF EntityHas(ents[eid], << HEALTH >>)
    THEN LET r == EntityGet(S, ents[eid], eid, HEALTH)
         IN  [ reg |-> [ r.reg EXCEPT !.tab[HEALTH].components[r.ret + 1] = @ - p ],
               entities |-> ents, destroyed |-> FALSE, fault |-> "none" ]
    ELSE [ reg |-> S, entities |-> ents, destroyed |-> FALSE, fault |-> "none" ]

MainRest == << priority, scope, contract_broken, ghost >>

\* Entity *player = mgr.CreateEntity(); player_id = player->GetID()
MainCreate ==
    /\ main.at = "start"
    /\ LET r == EntitiesCreate(entity_ids, entities)
       IN  /\ entity_ids' = r.entity_ids
           /\ entities' = r.entities
           /\ main' = [ main EXCEPT !.at = "add_health", !.player_id = r.id ]
           /\ last' = Op("Create", r.id, -1, 0, -1, 0, << >>)
    /\ UNCHANGED << MainRest, systems, systems_prioritised, copy, fault, Control >>

\* player->Add<Health>(15); player->Add<PoisonDamage>()
MainAdd(at, k, v, next) ==
    /\ main.at = at
    /\ LET e == main.player_id
           r == EntityAdd(Registry, entities[e], e, k, v)
       IN  /\ systems' = Settle(r.reg.tab, -1)
           /\ systems_prioritised' = r.reg.pri
           /\ entities' = [ entities EXCEPT ![e] = r.bits ]
           /\ last' = Op("Add", e, k, v, r.ret, Deref(r.reg.tab[k], r.ret), r.events)
    /\ main' = [ main EXCEPT !.at = next ]
    /\ UNCHANGED << MainRest, entity_ids, copy, fault, Control >>

MainAddHealth == MainAdd("add_health", HEALTH, InitialHealth, "add_poison")

MainAddPoison == MainAdd("add_poison", POISON_DAMAGE, DmgRate, "loop")

\* player = mgr.GetByID(player_id); printf of the health or of "dead"
MainPrint ==
    /\ main.at = "loop"
    /\ main.i < MainTicks
    /\ LET e == main.player_id
           alive == EntitiesGet(entities, e)
           r == IF alive THEN EntityGet(Registry, entities[e], e, HEALTH)
                ELSE [ reg |-> Registry, ret |-> -1 ]
       IN  /\ main' = [ main EXCEPT
                          !.at = "manage",
                          !.printed = Append(@, [ alive |-> alive,
                                                  health |-> Deref(r.reg.tab[HEALTH], r.ret) ]) ]
           /\ last' = Op("GetByID", e, HEALTH, 0, r.ret, Deref(r.reg.tab[HEALTH], r.ret), << >>)
    /\ UNCHANGED << MainRest, entity_ids, entities, systems, systems_prioritised,
                    copy, fault, Control >>

\* mgr.Manage() is called
MainManage ==
    /\ main.at = "manage"
    /\ pc' = "dispatch"
    /\ sys_i' = 0
    /\ hist' = [ EmptyHist EXCEPT !.start = systems_prioritised ]
    /\ main' = [ main EXCEPT !.at = "tick" ]
    /\ last' = Internal("Manage")
    /\ UNCHANGED << MainRest, entity_ids, entities, systems, systems_prioritised,
                    copy, fault, cur, hook_eid, hook_ops >>

\* The update hook of the running store, and the ++it after it
MainHook ==
    /\ main.at = "tick"
    /\ pc = "hook" /\ fault = "none"
    /\ LET c == At(systems[cur].components, systems[cur].it)
           r == IF cur = HEALTH
                THEN HealthManage(Registry, entities, hook_eid, c)
                ELSE PoisonManage(Registry, entities, hook_eid, c)
       IN  /\ systems' = [ Settle(r.reg.tab, cur) EXCEPT ![cur].it = IncIt(@) ]
           /\ systems_prioritised' = r.reg.pri
           /\ entities' = r.entities
           /\ fault' = r.fault
           /\ main' = [ main EXCEPT
                          !.died = IF r.destroyed THEN << main.i + 1, cur >> ELSE @,
                          !.visits = Append(@, << main.i + 1, cur, hook_eid >>) ]
           /\ last' = IF r.destroyed
                      THEN Op("Destroy", hook_eid, -1, 0, -1, 0, << >>)
                      ELSE Internal("ReturnFromHook")
    /\ pc' = "pass"
    /\ UNCHANGED << MainRest, entity_ids, copy, sys_i, cur, hook_eid, hook_ops, hist >>

\* After the tick, without lines 80-83: ++i
MainNext ==
    /\ main.at = "tick" /\ pc = "idle"
    /\ ~main.swap
    /\ main' = [ main EXCEPT !.at = "loop", !.i = @ + 1 ]
    /\ last' = Internal("MainNext")
    /\ UNCHANGED << MainRest, entity_ids, entities, systems, systems_prioritised,
                    copy, fault, Control >>

\* System<Health> *h = mgr.GetSystemCopy<Health>()
MainCopy ==
    /\ main.at = "tick" /\ pc = "idle"
    /\ main.swap
    /\ copy' = [ kind |-> HEALTH, sys |-> systems[HEALTH] ]
    /\ main' = [ main EXCEPT !.at = "bump" ]
    /\ last' = Op("GetSystemCopy", 0, HEALTH, 0, 0, 0, << >>)
    /\ UNCHANGED << MainRest, entity_ids, entities, systems, systems_prioritised,
                    fault, Control >>

\* for(j ...) h->components[j].data += 1
MainBump ==
    /\ main.at = "bump"
    /\ copy' = [ copy EXCEPT !.sys.components =
                    [ j \in 1 .. Len(@) |-> @[j] + 1 ] ]
    /\ main' = [ main EXCEPT !.at = "replace" ]
    /\ last' = Internal("MainBump")
    /\ UNCHANGED << MainRest, entity_ids, entities, systems, systems_prioritised,
                    fault, Control >>

\* mgr.ReplaceSystem<Health>(h); ++i
MainReplace ==
    /\ main.at = "replace"
    /\ LET S1 == ReplaceSystem(Registry, HEALTH, copy.sys)
       IN  /\ systems' = Settle(S1.tab, -1)
           /\ systems_prioritised' = S1.pri
    /\ copy' = NoCopy
    /\ main' = [ main EXCEPT !.at = "loop", !.i = @ + 1 ]
    /\ last' = Op("ReplaceSystem", 0, HEALTH, Changed(systems[HEALTH], copy.sys), -1, 0,
                  << >>)
    /\ UNCHANGED << MainRest, entity_ids, entities, fault, Control >>

\* return 0
MainReturn ==
    /\ main.at = "loop"
    /\ main.i >= MainTicks
    /\ main' = [ main EXCEPT !.at = "done" ]
    /\ last' = Internal("MainReturn")
    /\ UNCHANGED << MainRest, entity_ids, entities, systems, systems_prioritised,
                    copy, fault, Control >>

NextMain ==
    \/ MainCreate
    \/ MainAddHealth
    \/ MainAddPoison
    \/ MainPrint
    \/ MainManage
    \/ EnterPass
    \/ CallHook
    \/ MainHook
    \/ LeavePass
    \/ ReturnFromManage
    \/ MainNext
    \/ MainCopy
    \/ MainBump
    \/ MainReplace
    \/ MainReturn

\* main() as written (swap) and without the copy and replace of lines 80-83
InitMain ==
    \E swap \in BOOLEAN :
        InitWith(Scope(1, { HEALTH, POISON_DAMAGE }, { InitialHealth, DmgRate }, 0, FALSE),
                 PriorityMain, [ NoMain EXCEPT !.at = "start", !.swap = swap ])

SpecMain == InitMain /\ [][NextMain]_vars

(***************************************************************************)
(* Properties.                                                             *)
(***************************************************************************)
Count(seq, x) == Cardinality({ j \in 1 .. Len(seq) : seq[j] = x })

Pos(seq, x) == CHOOSE j \in 1 .. Len(seq) : seq[j] = x

\* K's store contains an association for entity e
Holds(k, e) == systems[k].alloc /\ e \in Range(systems[k].ids)

\* has<K>(E) for every live entity E and kind K equals "K's store holds E"
MembershipConsistent ==
    \A e \in DOMAIN entities : \A k \in Kinds :
        EntityHas(entities[e], << k >>) <=> Holds(k, e)

\* C1 as stated: membership consistency in every reachable state, after any
\* sequence of create, add, remove, destroy, tick, store copy and store
\* replace.
C1_MembershipAnySequence == MembershipConsistent

\* C1 amended: membership consistency in every reachable state, as long as
\* every ReplaceSystem was given a store with the entity ids of the store it
\* replaced (the documented contract of ReplaceSystem).
C1_MembershipUnderContract == ~contract_broken => MembershipConsistent

\* A replace that kept the contract has happened and some entity has a kind
C1_Witness ==
    /\ last.op = "ReplaceSystem"
    /\ ~contract_broken
    /\ \E e \in DOMAIN entities : entities[e] # { } /\ Cardinality(DOMAIN entities) = 2

\* The hook call c = << visiting entity, call, entity, kind >> removes the
\* visited element's own component
SelfRemoval(c) == c[2] = "Remove" /\ c[3] = c[1] /\ c[4] = cur

SelfRemoved == { hist.calls[j][1] : j \in 1 .. Len(hist.calls) }

\* C2: when a pass is over in which the hooks did nothing but remove the
\* component of the element at the cursor, every element the store had at
\* the start of the pass was visited exactly once, and the store holds the
\* elements that were not removed, in their original order.
C2_SelfRemovalSafe ==
    ( /\ PassDone
      /\ hist.calls # << >>
      /\ \A j \in 1 .. Len(hist.calls) : SelfRemoval(hist.calls[j]) )
    => /\ \A x \in Range(hist.pass_ids) : Count(hist.visited, x) = 1
       /\ Len(hist.visited) = Len(hist.pass_ids)
       /\ systems[cur].ids =
            SelectSeq(hist.pass_ids, LAMBDA x : x \notin SelfRemoved)
       /\ Len(systems[cur].components) = Len(systems[cur].ids)

\* A pass over three elements is over in which the first and the last
\* element removed themselves
C2_Witness ==
    /\ PassDone
    /\ Len(hist.pass_ids) = 3
    /\ hist.calls = << << hist.pass_ids[1], "Remove", hist.pass_ids[1], cur >>,
                       << hist.pass_ids[3], "Remove", hist.pass_ids[3], cur >> >>

\* C3: when a tick is over, every store that was registered when it started
\* has run once, in the order of the dispatch list, also when hooks
\* registered new stores during the tick.
C3_ExactlyOncePerTick ==
    TickDone =>
        SelectSeq(hist.runs, LAMBDA k : k \in Range(hist.start)) = hist.start

\* C4: the dispatch list is sorted by descending priority, stores of equal
\* priority stand in registration order, and a tick during which the list
\* did not change has run the stores in the order of the list.
C4_PriorityOrdering ==
    /\ \A i, j \in 1 .. Len(systems_prioritised) :
          i < j =>
            LET a == systems_prioritised[i]
                b == systems_prioritised[j]
            IN  \/ priority[a] > priority[b]
                \/ /\ priority[a] = priority[b]
                   /\ Pos(ghost.registered, a) < Pos(ghost.registered, b)
    /\ (TickDone /\ hist.start = systems_prioritised)
          => hist.runs = systems_prioritised

\* X:10, Y:20, Z:20 were registered in the order X, Y, Z and a tick ran Y, Z, X
C4_Witness ==
    /\ TickDone
    /\ priority[0] = 10 /\ priority[1] = 20 /\ priority[2] = 20
    /\ ghost.registered = << 0, 1, 2 >>
    /\ hist.runs = << 1, 2, 0 >>

\* C5: ReplaceSystem leaves the dispatch list as it was: the new store at
\* the index of the old one, the other stores in the same order.
C5_ReplaceKeepsPosition ==
    [][ last'.op = "ReplaceSystem" => systems_prioritised' = systems_prioritised ]_vars

\* C6: after Destroy(e), called by the application or by a hook, no store
\* holds an association for e and the lookup of e's id returns no entity.
C6_DestroyCascades ==
    last.op = "Destroy" =>
        /\ \A k \in Kinds : ~Holds(k, last.e)
        /\ EntitiesGet(entities, last.e) = FALSE

\* A hook destroyed an entity that had components in two stores
C6_Witness ==
    /\ last.op = "Destroy"
    /\ pc = "hook"
    /\ Len(last.events) = 2

\* C7: an Add of a kind the entity has changes nothing, returns the
\* component of that entity with its value as it was and calls no OnAdd;
\* an Add of a kind it has not makes the store one longer.
C7_IdempotentAdd ==
    [][ last'.op = "Add" =>
          LET e == last'.e
              k == last'.k
              i == last'.ret
          IN  IF k \in entities[e]
              THEN /\ systems' = systems
                   /\ entities' = entities
                   /\ i # -1
                   /\ At(systems[k].ids, i) = e
                   /\ last'.val = At(systems[k].components, i)
                   /\ last'.events = << >>
              ELSE /\ Len(systems'[k].ids) = Len(systems[k].ids) + 1
                   /\ Len(systems'[k].components) = Len(systems[k].components) + 1
                   /\ At(systems'[k].ids, i) = e
                   /\ last'.val = last'.arg
                   /\ Len(last'.events) = 1 ]_vars

\* A duplicate add has returned a component whose value is not its argument
C7_Witness ==
    /\ last.op = "Add"
    /\ last.events = << >>
    /\ last.ret # -1
    /\ last.val # last.arg

\* C8: after ReplaceSystem with a store that has the entity ids of the old
\* one, every entity that had the kind still has it, and Get returns the
\* value the new store holds for it.
C8_ReplaceKeepsAssociations ==
    [][ last'.op = "ReplaceSystem" =>
          LET k == last'.k
          IN  \A e \in DOMAIN entities :
                k \in entities[e] =>
                  LET r == EntityGet([ tab |-> systems', pri |-> systems_prioritised' ],
                                     entities'[e], e, k)
                  IN  /\ EntityHas(entities'[e], << k >>)
                      /\ r.ret # -1
                      /\ Deref(r.reg.tab[k], r.ret)
                           = At(copy.sys.components, GetComponent(copy.sys, e)) ]_vars

\* A store with two components was replaced by one with other values
C8_Witness ==
    /\ last.op = "ReplaceSystem"
    /\ last.arg > 0
    /\ Len(systems[last.k].ids) = 2
    /\ \A e \in Range(systems[last.k].ids) :
          e \in DOMAIN entities /\ last.k \in entities[e]

\* C10: the ids CreateEntity handed out are not zero and strictly
\* increasing, whatever was destroyed in between.
C10_IdsIncrease ==
    /\ \A j \in 1 .. Len(ghost.created) : ghost.created[j] > 0
    /\ \A i, j \in 1 .. Len(ghost.created) :
          i < j => ghost.created[i] < ghost.created[j]

\* An entity was created after the first one had been destroyed
C10_Witness ==
    /\ last.op = "Create"
    /\ Len(ghost.created) = 2
    /\ ghost.created[1] \notin DOMAIN entities

\* The first n lines main() printed are the health values hs
Printed(hs) ==
    \A j \in 1 .. Len(main.printed) :
        IF j <= Len(hs)
        THEN main.printed[j] = [ alive |-> TRUE, health |-> hs[j] ]
        ELSE ~main.printed[j].alive

C11_LookupByIdentity ==
    [][ last'.op = "GetByID" =>
          LET id == last'.e
              live == id \in Range(ghost.created) /\ id \notin ghost.destroyed
          IN  /\ last'.ret = (IF live THEN id ELSE 0)
              /\ id = 0 => last'.ret = 0
              /\ entities' = entities
              /\ entity_ids' = entity_ids ]_vars

\* The id of a destroyed entity was looked up in vain, while another entity
\* is alive
C11_Witness ==
    /\ last.op = "GetByID"
    /\ last.e \in ghost.destroyed
    /\ last.ret = 0
    /\ DOMAIN entities # { }
    /\ entity_ids < MaxEntities

\* The call recorded in op asked for a kind the entity e did not have
AbsentKind(op, bits) ==
    \/ op.op \in { "Get", "Remove" } /\ op.k \notin bits
    \/ op.op = "Has" /\ \E j \in 1 .. Len(op.arg) : op.arg[j] \notin bits

\* C12: Get, Remove and Has for a kind the entity does not have return
\* nullptr, nothing and false, do not fail, and change nothing: not the
\* entity's bits, not a store, not the table of stores, not the dispatch
\* list (no store is created by the call).
C12_AbsentKindNoEffect ==
    [][ ( /\ last'.op \in { "Get", "Remove", "Has" }
          /\ AbsentKind(last', entities[last'.e]) )
        => /\ last'.ret = -1
           /\ last'.val = 0
           /\ last'.events = << >>
           /\ fault' = "none"
           /\ entities' = entities
           /\ systems' = systems
           /\ systems_prioritised' = systems_prioritised ]_vars

\* C13: registering a store for a kind that has one changes nothing: the
\* store of the kind stays in the table with its components, and the
\* dispatch list keeps the same stores in the same order; no kind ever has
\* two entries in the dispatch list.
C13_FirstRegistrationWins ==
    [][ /\ (last'.op = "AddSystem" /\ systems[last'.k].alloc)
            => /\ systems' = systems
               /\ systems_prioritised' = systems_prioritised
        /\ \A k \in Kinds : Count(systems_prioritised', k) <= 1 ]_vars

\* AddSystem was called for a kind whose store holds a component, with
\* another store registered as well
C13_Witness ==
    /\ last.op = "AddSystem"
    /\ Len(systems[last.k].components) > 0
    /\ Len(systems_prioritised) >= 2

\* The hook call c removes a component of the running store (of the visited
\* element or of another one)
SameKindRemoval(c) == c[2] = "Remove" /\ c[4] = cur

\* C14: when a pass is over in which the hooks did nothing but remove
\* components of the running store (their own, earlier ones, later ones,
\* two of them in one call of the hook), every element that was in the store
\* when the pass started and still is in it was visited exactly once.
C14_CursorRuleAnyRemovals ==
    ( /\ PassDone
      /\ hist.calls # << >>
      /\ \A j \in 1 .. Len(hist.calls) : SameKindRemoval(hist.calls[j]) )
    => \A x \in Range(hist.pass_ids) \cap Range(systems[cur].ids) :
          Count(hist.visited, x) = 1

\* Store new is store old without the association of entity e: the other
\* associations in the same order with the same values, both sequences of
\* the same length
LostExactly(old, new, e) ==
    /\ new.ids = SelectSeq(old.ids, LAMBDA x : x # e)
    /\ Len(new.ids) = Len(old.ids) - 1
    /\ Len(new.components) = Len(new.ids)
    /\ \A j \in 1 .. Len(new.ids) :
          new.components[j] = old.components[Pos(old.ids, new.ids[j])]

\* A pass is over whose hooks made no call, for a store that lost a
\* component to the hook of another kind since its last pass
PassAfterLoss == PassDone /\ cur \in ghost.lost /\ hist.calls = << >>

\* C15: when the hook of a kind A destroys an entity e that has a component
\* of another kind B, B's store loses the association of e and nothing
\* else; and the next pass of B's store, in the same tick or in the next
\* one, visits every component the store holds exactly once.
C15_CrossStoreDestroy ==
    [][ /\ (last'.op = "Destroy" /\ pc = "hook")
            => \A B \in entities[last'.e] \ { cur } :
                  LostExactly(systems[B], systems'[B], last'.e)
        /\ PassAfterLoss'
            => /\ hist'.visited = systems'[cur'].ids
               /\ \A x \in Range(systems'[cur'].ids) : Count(hist'.visited, x) = 1 ]_vars

\* A pass over two components is over, for a store that lost a component
\* when the hook of the other kind, whose store runs before it in the tick,
\* destroyed one of the three entities
C15_Witness ==
    /\ PassAfterLoss
    /\ Len(hist.runs) = 2
    /\ Len(hist.visited) = 2
    /\ Cardinality(ghost.destroyed) = 1
    /\ entity_ids = MaxEntities

\* ... and the same for a store that runs first in the tick: it lost the
\* component in the tick before
C15_WitnessNextTick ==
    /\ PassAfterLoss
    /\ Len(hist.runs) = 1
    /\ Len(hist.visited) = 2

\* The hook call c adds a component of the running store's kind
SameKindAdd(c) == c[2] = "Add" /\ c[4] = cur

\* C16: a component of kind K that a hook adds during K's own pass, for an
\* entity that has none, goes to the end of K's sequences and leaves the
\* cursor alone; and when a pass is over in which the hooks did nothing but
\* add components of kind K, the elements the store had at the start were
\* visited once each, in order, followed by the added ones, once each.
C16_AddDuringPass ==
    [][ /\ (last'.op = "Add" /\ pc = "hook" /\ last'.k = cur
                /\ cur \notin entities[last'.e])
            => /\ systems'[cur].ids = Append(systems[cur].ids, last'.e)
               /\ systems'[cur].components = Append(systems[cur].components, last'.arg)
               /\ systems'[cur].it = systems[cur].it
        /\ ( /\ PassDone'
              /\ hist'.calls # << >>
              /\ \A j \in 1 .. Len(hist'.calls) : (SameKindAdd(hist.calls[j]))' )
            => /\ hist'.visited = systems'[cur'].ids
               /\ SubSeq(hist'.visited, 1, Len(hist'.pass_ids)) = hist'.pass_ids
               /\ \A x \in Range(hist'.visited) : Count(hist'.visited, x) = 1 ]_vars

\* A pass that started with one component is over; its hook added the
\* components of two more entities, and all three were visited
C16_Witness ==
    /\ PassDone
    /\ Len(hist.pass_ids) = 1
    /\ Len(hist.calls) = 2
    /\ \A j \in 1 .. Len(hist.calls) : SameKindAdd(hist.calls[j])
    /\ Len(hist.visited) = 3

\* The two vectors of store s mirror each other and no entity id is twice
\* in ids
WellFormed(s) ==
    /\ Len(s.components) = Len(s.ids)
    /\ \A i, j \in 1 .. Len(s.ids) : s.ids[i] = s.ids[j] => i = j

\* C17: in every reachable state every store, and the copy the application
\* holds, has components and ids of the same length and no entity id twice
\* in ids: after any sequence of add, remove, destroy, tick, copy and
\* replace, also when a replace installs a copy that went stale.
C17_StoresWellFormed ==
    /\ \A k \in Kinds : WellFormed(systems[k])
    /\ WellFormed(copy.sys)

\* After a stale copy was installed, an Add for an entity returned the
\* component the store already held, in a store with another component
C17_Witness ==
    /\ contract_broken
    /\ last.op = "Add"
    /\ last.ret # -1
    /\ last.events = << >>
    /\ Len(systems[last.k].ids) >= 2

\* The calls of hook name ("OnAdd", "OnRemove") for kind k among events
HookCalls(events, name, k) ==
    SelectSeq(events, LAMBDA ev : ev[1] = name /\ ev[2] = k)

\* The one call of the hook for kind k was made for entity e with the
\* component of e in store s, while s held e's association
CalledOnce(events, name, k, e, s) ==
    LET calls == HookCalls(events, name, k)
    IN  /\ Len(calls) = 1
        /\ calls[1][3] = e
        /\ calls[1][4] = At(s.components, GetComponent(s, e))
        /\ calls[1][5] = GetComponent(s, e)
        /\ calls[1][6] = s.ids

\* C18: an Add, Remove or Destroy for entity e calls OnAdd once for each
\* association it creates, with the new value, when value and id are in the
\* store; calls OnRemove once for each association it removes, with the
\* value, when value and id are still in the store; and calls no hook for
\* a kind whose store gains and loses nothing (duplicate add, remove of an
\* absent component).
C18_HookPairing ==
    [][ last'.op \in { "Add", "Remove", "Destroy" } =>
          LET e == last'.e
          IN  \A k \in Kinds :
                LET had == e \in Range(systems[k].ids)
                    has == e \in Range(systems'[k].ids)
                IN  /\ (~had /\ has)
                        => /\ CalledOnce(last'.events, "OnAdd", k, e, systems'[k])
                           /\ HookCalls(last'.events, "OnAdd", k)[1][4] = last'.arg
                           /\ HookCalls(last'.events, "OnRemove", k) = << >>
                    /\ (had /\ ~has)
                        => /\ CalledOnce(last'.events, "OnRemove", k, e, systems[k])
                           /\ HookCalls(last'.events, "OnAdd", k) = << >>
                    /\ (had <=> has)
                        => /\ HookCalls(last'.events, "OnAdd", k) = << >>
                           /\ HookCalls(last'.events, "OnRemove", k) = << >> ]_vars

\* A Destroy called OnRemove for two components of different values
C18_Witness ==
    /\ last.op = "Destroy"
    /\ Len(last.events) = 2
    /\ last.events[1][1] = "OnRemove"
    /\ last.events[1][4] # last.events[2][4]

\* C19: the default priority is the largest priority there is: a store
\* whose kind names a priority of its own never stands in the dispatch list
\* before a store of default priority that was registered before it.
C19_DefaultPriorityIsMax ==
    \A i, j \in 1 .. Len(systems_prioritised) :
        ( /\ systems_prioritised[j] = DefaultKind
          /\ systems_prioritised[i] # DefaultKind
          /\ Pos(ghost.registered, DefaultKind)
                < Pos(ghost.registered, systems_prioritised[i]) )
        => j < i

\* C20: in every state of a running program that the public operations
\* reach (ReplaceSystem being given what GetSystemCopy returned), every
\* kind whose bit is set on a live entity has a store in the table, and no
\* Destroy has asked an absent store to remove a component.
C20_SetBitsHaveStores ==
    /\ fault = "none" =>
          \A e \in DOMAIN entities : \A k \in entities[e] : systems[k].alloc
    /\ ~(last.op = "Destroy" /\ fault = "nullptr")

=============================================================================
